---------------------------- MODULE Spec2Model ----------------------------
(***************************************************************************)
(* Todo App API (FastAPI + SQLAlchemy + PyJWT): registration, login,       *)
(* bearer-token resolution and owner-or-admin task access, modelled from   *)
(* src/auth.py, src/main.py, src/models.py and src/database_models.py.     *)
(*                                                                         *)
(* Time is counted in ticks of 1/TicksPerSec second, so that the whole-    *)
(* second "exp" a JWT carries and the sub-second clock that issues and     *)
(* checks it are both visible.  SHA-256 and HMAC-SHA256 are idealised as   *)
(* collision-free: a digest is a tag around its input.                     *)
(***************************************************************************)
EXTENDS Integers, Sequences, FiniteSets, TLC

VARIABLES
    users,      \* rows of table "users"
    tasks,      \* rows of table "task"
    nextTaskId, \* next value of the task.id sequence
    now,        \* the wall clock, in ticks
    nticks,     \* how many times the clock has advanced
    wallet,     \* the bearer token a client holds from an earlier login,
                \* with the instant login issued it
    pc,         \* per register request in flight: where it is in register_user
    req,        \* per register request in flight: its UserCreate body
    resp        \* the response that has just been returned, until it is read

vars == <<users, tasks, nextTaskId, now, nticks, wallet, pc, req, resp>>

-----------------------------------------------------------------------------
(* Bounds of the model *)

TicksPerSec == 2    \* clock resolution: ticks per second
MaxTicks == 1       \* how many times the clock may advance
MaxCodecTicks == 2  \* the same, where only the token codec is exercised
MaxTaskId == 5      \* last task id the sequence may hand out

-----------------------------------------------------------------------------
(* Program constants *)

SECRET_KEY == "<SECRET_KEY_HERE>"
ALGORITHM == "HS256"
ACCESS_TOKEN_EXPIRE_MIN == 60

MinuteTicks == 60 * TicksPerSec
WindowTicks == ACCESS_TOKEN_EXPIRE_MIN * MinuteTicks

NoneVal == "<None>"         \* Python's None where a string is expected
Roles == {"user", "admin"}  \* UserCreate.role pattern ^(user|admin)$

-----------------------------------------------------------------------------
(* Password Hasher: auth.py hash_password / verify_password *)

\* secrets.token_hex(16): 32 hex digits, all of one length; two of them here.
Salts == {"5a5a", "c3c3"}

\* hashlib.sha256(s.encode()).hexdigest(), collision-free.
Sha256Hex(s) == "sha256:" \o s

\* str.split(sep) on a string given as the sequence of its fields and
\* separators: the list of the (possibly empty) fields between separators.
RECURSIVE Split(_, _)
Split(s, sep) ==
    IF s = <<>> THEN <<"">>
    ELSE LET rest == Split(Tail(s), sep)
         IN  IF Head(s) = sep THEN <<"">> \o rest
             ELSE <<Head(s) \o Head(rest)>> \o Tail(rest)

\* f"{salt}${hash_obj.hexdigest()}"
hash_password(password, salt) == <<salt, "$", Sha256Hex(salt \o password)>>

\* verify_password that does not compare the digests.
verify_password_NoCompare(plain_password, hashed_password) ==
    Len(Split(hashed_password, "$")) = 2

\* salt, stored_hash = hashed_password.split("$"); ValueError -> False
verify_password(plain_password, hashed_password) ==
    LET parts == Split(hashed_password, "$")
    IN  IF Len(parts) # 2 THEN FALSE
        ELSE Sha256Hex(parts[1] \o plain_password) = parts[2]

-----------------------------------------------------------------------------
(* Token Codec: PyJWT encode/decode as auth.py calls them *)

JwtHeader(alg) == [alg |-> alg, typ |-> "JWT"]

\* HMAC-SHA256 over the signing input header.payload, collision-free.
HmacSha256(key, header, payload) == <<"HS256", key, header, payload>>

\* jwt.encode(payload, key, algorithm): a three-segment token.
jwt_encode(payload, key, algorithm) ==
    [segments |-> 3,
     header |-> JwtHeader(algorithm),
     payload |-> payload,
     signature |-> HmacSha256(key, JwtHeader(algorithm), payload)]

\* datetime -> NumericDate: timegm(utctimetuple()), whole seconds.
NumericDate(t) == t \div TicksPerSec

\* create_access_token with a window one minute short.
create_access_token_ShortWindow(data, t) ==
    LET expire == t + WindowTicks - MinuteTicks
        to_encode == [sub |-> data.sub, role |-> data.role,
                      user_id |-> data.user_id, exp |-> NumericDate(expire)]
    IN  jwt_encode(to_encode, SECRET_KEY, ALGORITHM)

\* create_access_token(data), called at instant t.
create_access_token(data, t) ==
    LET expire == t + WindowTicks
        to_encode == [sub |-> data.sub, role |-> data.role,
                      user_id |-> data.user_id, exp |-> NumericDate(expire)]
    IN  jwt_encode(to_encode, SECRET_KEY, ALGORITHM)

\* jwt.decode validating exp before the signature.
jwt_decode_ExpiryFirst(token, key, algorithms, t) ==
    IF token.segments # 3
    THEN [error |-> "DecodeError", payload |-> token.payload]
    ELSE IF token.payload.exp * TicksPerSec <= t
    THEN [error |-> "ExpiredSignatureError", payload |-> token.payload]
    ELSE IF token.header.alg \notin algorithms
    THEN [error |-> "InvalidAlgorithmError", payload |-> token.payload]
    ELSE IF token.signature # HmacSha256(key, token.header, token.payload)
    THEN [error |-> "InvalidSignatureError", payload |-> token.payload]
    ELSE [error |-> "", payload |-> token.payload]

\* jwt.decode(jwt=token, key=key, algorithms=algorithms) at instant t:
\* segments, then algorithm, then signature, then exp <= now.
jwt_decode(token, key, algorithms, t) ==
    IF token.segments # 3
    THEN [error |-> "DecodeError", payload |-> token.payload]
    ELSE IF token.header.alg \notin algorithms
    THEN [error |-> "InvalidAlgorithmError", payload |-> token.payload]
    ELSE IF token.signature # HmacSha256(key, token.header, token.payload)
    THEN [error |-> "InvalidSignatureError", payload |-> token.payload]
    ELSE IF token.payload.exp * TicksPerSec <= t
    THEN [error |-> "ExpiredSignatureError", payload |-> token.payload]
    ELSE [error |-> "", payload |-> token.payload]

-----------------------------------------------------------------------------
(* Credential Store and Session Resolver: auth.py *)

\* db.query(UserDB).filter(UserDB.username == username).first(): {} is None
get_user_by_username(db_users, username) ==
    IF \E u \in db_users : u.username = username
    THEN {CHOOSE u \in db_users : u.username = username}
    ELSE {}

\* authenticate_user without the password check.
authenticate_user_NoVerify(db_users, username, password) ==
    get_user_by_username(db_users, username)

authenticate_user(db_users, username, password) ==
    LET user == get_user_by_username(db_users, username)
    IN  IF user = {} THEN {}
        ELSE IF ~ \A u \in user : verify_password(password, u.hashed_password)
        THEN {}
        ELSE user

credentials_exception ==
    [status |-> 401, detail |-> "Could not validate credentials", user |-> {}]

\* A request with no Authorization header, where a token is expected.
NoHeader ==
    [segments |-> 0,
     header |-> JwtHeader(""),
     payload |-> [sub |-> NoneVal, role |-> "", user_id |-> 0, exp |-> 0],
     signature |-> <<>>]

\* Depends(oauth2_scheme) finding no bearer token in the request.
not_authenticated ==
    [status |-> 401, detail |-> "Not authenticated", user |-> {}]

\* get_current_user taking the principal's id from the user_id claim.
get_current_user_IdFromToken(token, db_users, t) ==
    LET dec == jwt_decode(token, SECRET_KEY, {ALGORITHM}, t)
    IN  IF token = NoHeader THEN not_authenticated
        ELSE IF dec.error = "ExpiredSignatureError"
        THEN [status |-> 401, detail |-> "Token has expired", user |-> {}]
        ELSE IF dec.error # "" THEN credentials_exception
        ELSE IF dec.payload.sub = NoneVal THEN credentials_exception
        ELSE LET user == get_user_by_username(db_users, dec.payload.sub)
             IN  IF user = {} THEN credentials_exception
                 ELSE [status |-> 200, detail |-> "",
                       user |-> {[u EXCEPT !.id = dec.payload.user_id] : u \in user}]

\* get_current_user taking the principal's role from the role claim.
get_current_user_RoleFromToken(token, db_users, t) ==
    LET dec == jwt_decode(token, SECRET_KEY, {ALGORITHM}, t)
    IN  IF token = NoHeader THEN not_authenticated
        ELSE IF dec.error = "ExpiredSignatureError"
        THEN [status |-> 401, detail |-> "Token has expired", user |-> {}]
        ELSE IF dec.error # "" THEN credentials_exception
        ELSE IF dec.payload.sub = NoneVal THEN credentials_exception
        ELSE LET user == get_user_by_username(db_users, dec.payload.sub)
             IN  IF user = {} THEN credentials_exception
                 ELSE [status |-> 200, detail |-> "",
                       user |-> {[u EXCEPT !.role = dec.payload.role] : u \in user}]

\* get_current_user reading the claims without verifying the token.
get_current_user_Unverified(token, db_users, t) ==
    IF token = NoHeader THEN not_authenticated
    ELSE IF token.segments # 3 \/ token.payload.sub = NoneVal
    THEN credentials_exception
    ELSE LET user == get_user_by_username(db_users, token.payload.sub)
         IN  IF user = {} THEN credentials_exception
             ELSE [status |-> 200, detail |-> "", user |-> user]

get_current_user(token, db_users, t) ==
    LET dec == jwt_decode(token, SECRET_KEY, {ALGORITHM}, t)
    IN  IF token = NoHeader THEN not_authenticated
        ELSE IF dec.error = "ExpiredSignatureError"
        THEN [status |-> 401, detail |-> "Token has expired", user |-> {}]
        ELSE IF dec.error # "" THEN credentials_exception
        ELSE IF dec.payload.sub = NoneVal THEN credentials_exception
        ELSE LET user == get_user_by_username(db_users, dec.payload.sub)
             IN  IF user = {} THEN credentials_exception
                 ELSE [status |-> 200, detail |-> "", user |-> user]


-----------------------------------------------------------------------------
(* Credential Store writes: auth.py create_user, main.py init_db *)

\* The users.id the store assigns to the next inserted row.
NextUserId(db_users) ==
    IF db_users = {} THEN 1
    ELSE 1 + (CHOOSE m \in {u.id : u \in db_users} :
                 \A u \in db_users : u.id <= m)

\* create_user with no unique index on users.username behind it.
create_user_NoUniqueIndex(db_users, username, password, role, salt) ==
    LET user == [id |-> NextUserId(db_users),
                 username |-> username,
                 hashed_password |-> hash_password(password, salt),
                 role |-> role]
    IN  [error |-> "", users |-> db_users \cup {user}, user |-> {user}]

\* create_user(db, username, password, role) with the salt hash_password
\* draws (the row's created_at, which nothing reads, is left out).  db.commit() raises IntegrityError when the unique
\* index on users.username already holds the username.
create_user(db_users, username, password, role, salt) ==
    LET user == [id |-> NextUserId(db_users),
                 username |-> username,
                 hashed_password |-> hash_password(password, salt),
                 role |-> role]
    IN  IF \E u \in db_users : u.username = username
        THEN [error |-> "IntegrityError", users |-> db_users, user |-> {}]
        ELSE [error |-> "", users |-> db_users \cup {user}, user |-> {user}]

\* models.User: the response model of a user row (no password hash).
UserOut(u) ==
    [id |-> u.id, username |-> u.username, role |-> u.role]

\* init_db() on an empty database: users admin and demo, four sample tasks.
InitUsers(s1, s2) ==
    LET admin == create_user({}, "admin", "admin123", "admin", s1)
    IN  create_user(admin.users, "demo", "demo123", "user", s2).users

UserIdOf(db_users, username) ==
    (CHOOSE u \in db_users : u.username = username).id

InitTasks(db_users) ==
    LET demo == UserIdOf(db_users, "demo")
        admin == UserIdOf(db_users, "admin")
    IN  {[id |-> 1, name |-> "Planning", status |-> "completed",
          user_id |-> demo, created_at |-> 0],
         [id |-> 2, name |-> "Coding", status |-> "pending",
          user_id |-> demo, created_at |-> 0],
         [id |-> 3, name |-> "Research", status |-> "pending",
          user_id |-> admin, created_at |-> 0],
         [id |-> 4, name |-> "Meeting", status |-> "completed",
          user_id |-> admin, created_at |-> 0]}

-----------------------------------------------------------------------------
(* Authentication endpoints: main.py login, register_user *)

Response(status, detail, headers, body) ==
    [status |-> status, detail |-> detail, headers |-> headers, body |-> body]

\* login telling an unknown username from a wrong password.
login_Enumerating(db_users, username, password, t) ==
    LET user == authenticate_user(db_users, username, password)
    IN  IF get_user_by_username(db_users, username) = {}
        THEN Response(404, "User not found", "", {})
        ELSE IF user = {}
        THEN Response(401, "Invalid credentials", "Bearer", {})
        ELSE LET u == CHOOSE x \in user : TRUE
                 token == create_access_token(
                     [sub |-> u.username, role |-> u.role, user_id |-> u.id], t)
             IN  Response(200, "", "",
                          {[access_token |-> token, token_type |-> "bearer"]})

\* POST /token at instant t
login(db_users, username, password, t) ==
    LET user == authenticate_user(db_users, username, password)
    IN  IF user = {}
        THEN Response(401, "Invalid credentials", "Bearer", {})
        ELSE LET u == CHOOSE x \in user : TRUE
                 token == create_access_token(
                     [sub |-> u.username, role |-> u.role, user_id |-> u.id], t)
             IN  Response(200, "", "",
                          {[access_token |-> token, token_type |-> "bearer"]})

\* register_user without the look-up of the username.
register_lookup_NoCheck(db_users, user_data) == {}

\* POST /register, first half: the look-up of the username.
\* {} when the request goes on to create_user.
register_lookup(db_users, user_data) ==
    IF get_user_by_username(db_users, user_data.username) # {}
    THEN {Response(400, "Username already registered", "", {})}
    ELSE {}

\* register_user inserting into a users table it has emptied.
register_create_Recreating(db_users, user_data, salt) ==
    LET made == create_user({}, user_data.username, user_data.password,
                            user_data.role, salt)
    IN  [users |-> made.users,
         resp |-> Response(201, "", "", {UserOut(u) : u \in made.user})]

\* register_user storing every new user with role "user".
register_create_RoleUser(db_users, user_data, salt) ==
    LET made == create_user(db_users, user_data.username, user_data.password,
                            "user", salt)
    IN  IF made.error # ""
        THEN [users |-> db_users,
              resp |-> Response(500, "Internal Server Error", "", {})]
        ELSE [users |-> made.users,
              resp |-> Response(201, "", "",
                                {UserOut(u) : u \in made.user})]

\* POST /register, second half: create_user and the response.  An
\* IntegrityError has no handler: the framework answers 500.
register_create(db_users, user_data, salt) ==
    LET made == create_user(db_users, user_data.username, user_data.password,
                            user_data.role, salt)
    IN  IF made.error # ""
        THEN [users |-> db_users,
              resp |-> Response(500, "Internal Server Error", "", {})]
        ELSE [users |-> made.users,
              resp |-> Response(201, "", "",
                                {UserOut(u) : u \in made.user})]

-----------------------------------------------------------------------------
(* Task and user-management endpoints: main.py *)

TaskStatuses == {"pending", "in progress", "completed"}

\* models.Task: the response model of a task row.
TaskOut(t) ==
    [id |-> t.id, name |-> t.name, status |-> t.status,
     user_id |-> t.user_id, created_at |-> t.created_at]

\* db.query(TaskDB).filter(TaskDB.id == id).first(): {} is None
task_by_id(db_tasks, id) == {t \in db_tasks : t.id = id}

\* GET /me
get_current_user_info(current_user) ==
    Response(200, "", "", {UserOut(current_user)})

\* GET /task/{id}
get_task_by_id(db_tasks, current_user, id) ==
    LET db_task == task_by_id(db_tasks, id)
    IN  IF db_task = {} THEN Response(404, "Task not found", "", {})
        ELSE IF current_user.role # "admin"
                /\ \A t \in db_task : t.user_id # current_user.id
        THEN Response(403, "Not authorized to view this task", "", {})
        ELSE Response(200, "", "", {TaskOut(t) : t \in db_task})

\* create_task storing another id than the current user's as the owner.
create_task_WrongOwner(db_tasks, seq, current_user, task, t) ==
    LET db_task == [id |-> seq, name |-> task.name, status |-> task.status,
                    user_id |-> current_user.id + 1, created_at |-> t]
    IN  [tasks |-> db_tasks \cup {db_task},
         resp |-> Response(201, "", "", {TaskOut(db_task)})]

\* POST /tasks at instant t; seq is the next value of the task.id sequence.
create_task(db_tasks, seq, current_user, task, t) ==
    LET db_task == [id |-> seq, name |-> task.name, status |-> task.status,
                    user_id |-> current_user.id, created_at |-> t]
    IN  [tasks |-> db_tasks \cup {db_task},
         resp |-> Response(201, "", "", {TaskOut(db_task)})]

\* update_task writing the default status when none is supplied.
update_task_ResetsStatus(db_tasks, current_user, id, updated_task) ==
    LET db_task == task_by_id(db_tasks, id)
    IN  IF db_task = {}
        THEN [tasks |-> db_tasks,
              resp |-> Response(404, "Task not found", "", {})]
        ELSE IF current_user.role # "admin"
                /\ \A t \in db_task : t.user_id # current_user.id
        THEN [tasks |-> db_tasks,
              resp |-> Response(403, "Not authorized to update this task",
                                "", {})]
        ELSE LET old == CHOOSE t \in db_task : TRUE
                 named == IF updated_task.name # NoneVal
                          THEN [old EXCEPT !.name = updated_task.name]
                          ELSE old
                 new == IF updated_task.status # NoneVal
                        THEN [named EXCEPT !.status = updated_task.status]
                        ELSE [named EXCEPT !.status = "pending"]
             IN  [tasks |-> (db_tasks \ {old}) \cup {new},
                  resp |-> Response(200, "", "", {TaskOut(new)})]

\* update_task without the ownership check.
update_task_NoOwnerCheck(db_tasks, current_user, id, updated_task) ==
    LET db_task == task_by_id(db_tasks, id)
    IN  IF db_task = {}
        THEN [tasks |-> db_tasks,
              resp |-> Response(404, "Task not found", "", {})]
        ELSE LET old == CHOOSE t \in db_task : TRUE
                 named == IF updated_task.name # NoneVal
                          THEN [old EXCEPT !.name = updated_task.name]
                          ELSE old
                 new == IF updated_task.status # NoneVal
                        THEN [named EXCEPT !.status = updated_task.status]
                        ELSE named
             IN  [tasks |-> (db_tasks \ {old}) \cup {new},
                  resp |-> Response(200, "", "", {TaskOut(new)})]

\* PUT /task/{id}
update_task(db_tasks, current_user, id, updated_task) ==
    LET db_task == task_by_id(db_tasks, id)
    IN  IF db_task = {}
        THEN [tasks |-> db_tasks,
              resp |-> Response(404, "Task not found", "", {})]
        ELSE IF current_user.role # "admin"
                /\ \A t \in db_task : t.user_id # current_user.id
        THEN [tasks |-> db_tasks,
              resp |-> Response(403, "Not authorized to update this task",
                                "", {})]
        ELSE LET old == CHOOSE t \in db_task : TRUE
                 named == IF updated_task.name # NoneVal
                          THEN [old EXCEPT !.name = updated_task.name]
                          ELSE old
                 new == IF updated_task.status # NoneVal
                        THEN [named EXCEPT !.status = updated_task.status]
                        ELSE named
             IN  [tasks |-> (db_tasks \ {old}) \cup {new},
                  resp |-> Response(200, "", "", {TaskOut(new)})]

\* delete_task answering 204 without deleting the row.
delete_task_KeepsRow(db_tasks, current_user, id) ==
    LET db_task == task_by_id(db_tasks, id)
    IN  IF db_task = {}
        THEN [tasks |-> db_tasks,
              resp |-> Response(404, "Task not found", "", {})]
        ELSE IF current_user.role # "admin"
                /\ \A t \in db_task : t.user_id # current_user.id
        THEN [tasks |-> db_tasks,
              resp |-> Response(403, "Not authorized to delete this task",
                                "", {})]
        ELSE [tasks |-> db_tasks, resp |-> Response(204, "", "", {})]

\* DELETE /task/{id}
delete_task(db_tasks, current_user, id) ==
    LET db_task == task_by_id(db_tasks, id)
    IN  IF db_task = {}
        THEN [tasks |-> db_tasks,
              resp |-> Response(404, "Task not found", "", {})]
        ELSE IF current_user.role # "admin"
                /\ \A t \in db_task : t.user_id # current_user.id
        THEN [tasks |-> db_tasks,
              resp |-> Response(403, "Not authorized to delete this task",
                                "", {})]
        ELSE [tasks |-> db_tasks \ db_task,
              resp |-> Response(204, "", "", {})]

\* get_all_users without the admin gate.
get_all_users_NoGate(db_users, current_user) ==
    Response(200, "", "", {UserOut(u) : u \in db_users})

\* GET /users
get_all_users(db_users, current_user) ==
    IF current_user.role # "admin"
    THEN Response(403, "Admin access required", "", {})
    ELSE Response(200, "", "", {UserOut(u) : u \in db_users})

\* The spelling of the task names and prefixes requests use.
Spell ==
    [n \in {"Coding", "Meeting", "Planning", "Research", "Review",
            "Write report", "", "Re", "Zz"} |->
        CASE n = "Coding" -> <<"C", "o", "d", "i", "n", "g">>
          [] n = "Meeting" -> <<"M", "e", "e", "t", "i", "n", "g">>
          [] n = "Planning" -> <<"P", "l", "a", "n", "n", "i", "n", "g">>
          [] n = "Research" -> <<"R", "e", "s", "e", "a", "r", "c", "h">>
          [] n = "Review" -> <<"R", "e", "v", "i", "e", "w">>
          [] n = "Write report" ->
               <<"W", "r", "i", "t", "e", " ", "r", "e", "p", "o", "r", "t">>
          [] n = "" -> <<>>
          [] n = "Re" -> <<"R", "e">>
          [] n = "Zz" -> <<"Z", "z">>]

\* TaskDB.name.startswith(prefix)
startswith(name, prefix) ==
    /\ Len(Spell[prefix]) <= Len(Spell[name])
    /\ SubSeq(Spell[name], 1, Len(Spell[prefix])) = Spell[prefix]

\* The task names in ascending order, as order_by(asc(TaskDB.name)) has them.
NameOrder ==
    <<"Coding", "Meeting", "Planning", "Research", "Review", "Write report">>
NameRank(n) == CHOOSE i \in 1..Len(NameOrder) : NameOrder[i] = n

\* order_by(asc(name)) / order_by(desc(name)) of a set of rows: every order
\* the database may return, rows of one name coming in any order.
RECURSIVE order_by(_, _)
order_by(rows, sort_by) ==
    IF rows = {} THEN {<<>>}
    ELSE LET first == {r \in rows : \A o \in rows :
                         IF sort_by = "desc"
                         THEN NameRank(r.name) >= NameRank(o.name)
                         ELSE NameRank(r.name) <= NameRank(o.name)}
         IN  UNION {{<<r>> \o rest : rest \in order_by(rows \ {r}, sort_by)} :
                      r \in first}

\* query.offset(offset).limit(limit) of an ordered result.
offset_limit(ordered, offset, limit) ==
    SubSeq(ordered, offset + 1,
           IF offset + limit < Len(ordered) THEN offset + limit
           ELSE Len(ordered))

\* The filters, sorting and pagination the three listings share; q holds
\* the query parameters.  All result lists the database may return.
query_all(rows, q) ==
    LET named == IF q.starts_with \notin {NoneVal, ""}
                 THEN {r \in rows : startswith(r.name, q.starts_with)}
                 ELSE rows
        filtered == IF q.status_filter # NoneVal
                    THEN {r \in named : r.status = q.status_filter}
                    ELSE named
    IN  {offset_limit(o, q.offset, q.limit) :
            o \in order_by(filtered, q.sort_by)}

\* The response model List[Task] of a result list.
TaskList(result) == [i \in 1..Len(result) |-> TaskOut(result[i])]

\* GET /tasks: the responses the request may get.
get_all_tasks(db_tasks, current_user, q) ==
    LET base == IF current_user.role = "admin" THEN db_tasks
                ELSE {t \in db_tasks : t.user_id = current_user.id}
    IN  {IF q.starts_with \notin {NoneVal, ""} /\ db_tasks_ = <<>>
         THEN Response(404, "No tasks found starting with '"
                              \o q.starts_with \o "'", "", {})
         ELSE Response(200, "", "", {TaskList(db_tasks_)}) :
            db_tasks_ \in query_all(base, q)}

\* get_my_tasks with the base query of get_all_tasks.
get_my_tasks_AdminSeesAll(db_tasks, current_user, q) ==
    LET base == IF current_user.role = "admin" THEN db_tasks
                ELSE {t \in db_tasks : t.user_id = current_user.id}
    IN  {Response(200, "", "", {TaskList(result)}) :
            result \in query_all(base, q)}

\* GET /my-tasks: the responses the request may get.
get_my_tasks(db_tasks, current_user, q) ==
    LET base == {t \in db_tasks : t.user_id = current_user.id}
    IN  {Response(200, "", "", {TaskList(result)}) :
            result \in query_all(base, q)}

\* get_user_tasks looking the user up before the authorization check.
get_user_tasks_ExistenceFirst(db_tasks, db_users, current_user, user_id, q) ==
    IF \A u \in db_users : u.id # user_id
    THEN {Response(404, "User not found", "", {})}
    ELSE IF current_user.role # "admin" /\ current_user.id # user_id
    THEN {Response(403, "Not authorized to view these tasks", "", {})}
    ELSE LET base == {t \in db_tasks : t.user_id = user_id}
         IN  {Response(200, "", "", {TaskList(result)}) :
                 result \in query_all(base, [q EXCEPT !.starts_with = NoneVal])}

\* GET /user/{user_id}/tasks: the responses the request may get.
get_user_tasks(db_tasks, db_users, current_user, user_id, q) ==
    IF current_user.role # "admin" /\ current_user.id # user_id
    THEN {Response(403, "Not authorized to view these tasks", "", {})}
    ELSE IF \A u \in db_users : u.id # user_id
    THEN {Response(404, "User not found", "", {})}
    ELSE LET base == {t \in db_tasks : t.user_id = user_id}
         IN  {Response(200, "", "", {TaskList(result)}) :
                 result \in query_all(base, [q EXCEPT !.starts_with = NoneVal])}

\* GET /
greet == Response(200, "", "", {[message |-> "Welcome to the Todo App API"]})

\* Depends(get_current_user) failing: the HTTPException it raised, as the
\* response (its 401s carry WWW-Authenticate: Bearer).
auth_failure(auth) == Response(auth.status, auth.detail, "Bearer", {})

-----------------------------------------------------------------------------
(* Requests the environment may send *)

\* UserCreate bodies of POST /register (valid ones: 422s are not modelled).
\* status is the model's note of how the request was answered.
RegNames == {"alice", "demo"}
RegPasswords == {"secret1"}
RegBodies ==
    [username : RegNames, password : RegPasswords, role : Roles,
     status : {0}]

\* Form fields of POST /token.
LoginNames == {"admin", "demo", "alice", "ghost"}
LoginPasswords == {"admin123", "demo123", "secret1", "wrongpass"}

\* TaskCreate and TaskUpdate bodies.
TaskBodies == [name : {"Write report"}, status : {"pending"}]
TaskUpdates == [name : {NoneVal, "Review"}, status : {NoneVal, "completed"}]
TaskIds == 1..(MaxTaskId + 1)

\* Query parameters of the listings (limit 100, offset 0, no filter and
\* "asc" are the defaults), and the user ids a path may name.
Queries ==
    [limit : {1, 100}, offset : {0, 1}, starts_with : {NoneVal, "Re", "Zz"},
     status_filter : {NoneVal, "pending"}, sort_by : {"asc", "desc"}]
DefaultQuery ==
    [limit |-> 100, offset |-> 0, starts_with |-> NoneVal,
     status_filter |-> NoneVal, sort_by |-> "asc"]
PathUserIds == {1, 2, 9}

\* models.UserCreate parsing a body: an omitted role is "user".
UserCreate(body) ==
    [body EXCEPT !.role = IF @ = NoneVal THEN "user" ELSE @]

\* Register bodies as sent, the role given or omitted.
SentBodies ==
    [username : {"alice", "bob1"}, password : RegPasswords,
     role : Roles \cup {NoneVal}, status : {0}]

\* Register requests that may be in flight at once.
Procs == {"r1", "r2"}
NoReq == [username |-> "", password |-> "", role |-> "", status |-> 0]

\* "Bearer invalid_token_here": a string that is no three-segment token.
GarbageToken ==
    [segments |-> 1,
     header |-> JwtHeader(""),
     payload |-> [sub |-> NoneVal, role |-> "", user_id |-> 0, exp |-> 0],
     signature |-> <<>>]

\* What a client without the key can make of a token it holds: a claim
\* rewritten under the old signature, a signature made with another key,
\* or the algorithm switched to "none" with the signature dropped.
Tampered(tok) ==
    {[tok EXCEPT !.payload.role = r] : r \in Roles \ {tok.payload.role}}
    \cup {[tok EXCEPT !.payload.sub = n] :
            n \in LoginNames \ {tok.payload.sub}}
    \cup {[tok EXCEPT !.payload.exp = @ + 60 * ACCESS_TOKEN_EXPIRE_MIN]}
    \cup {[tok EXCEPT !.payload.user_id = @ + 1]}
    \cup {[tok EXCEPT !.signature =
                HmacSha256("guessed-key", tok.header, tok.payload)]}
    \cup {[tok EXCEPT !.header = JwtHeader("none"), !.signature = <<>>]}

\* Tokens create_access_token signed for a subject the users table does not
\* (or does not yet) hold, or for no subject: another database behind the
\* same SECRET_KEY, or the table recreated since.
OrphanNames == {"alice", "ghost", NoneVal}
Orphans(db_users, t) ==
    {create_access_token([sub |-> n, role |-> "admin", user_id |-> 1], t) :
        n \in {m \in OrphanNames : \A u \in db_users : u.username # m}}

\* The bearer tokens a request may carry.
WalletTokens == {w.token : w \in wallet}
Forged == UNION {Tampered(tok) : tok \in WalletTokens} \cup {GarbageToken}
Presented == WalletTokens \cup Forged \cup Orphans(users, now)

\* The bearer tokens of a client that only uses what login gave it.
Held == WalletTokens \cup {GarbageToken}

-----------------------------------------------------------------------------
(* The state machine *)

\* A response as the client sees it, with the request it answers: the
\* operation, the username or task id the request named, the bearer token
\* it carried.
Tag(op, name, id, token, r) ==
    [op |-> op, name |-> name, id |-> id, token |-> token,
     status |-> r.status, detail |-> r.detail,
     headers |-> r.headers, body |-> r.body]

\* No response is waiting to be read.
NoResp == Tag("", "", 0, {}, Response(0, "", "", {}))

\* init_db() on an empty database, then no request yet.
Init ==
    /\ users = InitUsers("5a5a", "c3c3")
    /\ tasks = InitTasks(users)
    /\ nextTaskId = 5
    /\ now = 0
    /\ nticks = 0
    /\ wallet = {}
    /\ pc = [p \in Procs |-> "idle"]
    /\ req = [p \in Procs |-> NoReq]
    /\ resp = NoResp

\* The client reads the response.
Deliver ==
    /\ resp.op # ""
    /\ resp' = NoResp
    /\ UNCHANGED <<users, tasks, nextTaskId, now, nticks, wallet, pc, req>>

\* The clock advances.
Tick(d, limit) ==
    /\ resp.op = ""
    /\ nticks < limit
    /\ now' = now + d
    /\ nticks' = nticks + 1
    /\ UNCHANGED <<users, tasks, nextTaskId, wallet, pc, req, resp>>

\* POST /token; the client keeps the token it is given, or the one it has.
Login(username, password, keep) ==
    LET r == login(users, username, password, now)
    IN  /\ resp.op = ""
        /\ resp' = Tag("login", username, 0, {}, r)
        /\ wallet' = IF r.status = 200 /\ (keep \/ wallet = {})
                     THEN {[token |-> b.access_token, issued_at |-> now] :
                              b \in r.body}
                     ELSE wallet
        /\ UNCHANGED <<users, tasks, nextTaskId, now, nticks, pc, req>>

\* POST /register up to the look-up of the username.  A request that is
\* refused here has returned; `after` is where a returned request rests.
RegisterLookup(p, user_data, after) ==
    LET refused == register_lookup(users, user_data)
    IN  /\ resp.op = ""
        /\ pc[p] = "idle"
        /\ IF refused # {}
           THEN /\ resp' = Tag("register", user_data.username, 0, {},
                                 CHOOSE r \in refused : TRUE)
                /\ pc' = [pc EXCEPT ![p] = after]
                /\ req' = [req EXCEPT ![p] =
                             IF after = "idle" THEN NoReq
                             ELSE [user_data EXCEPT !.status = 400]]
           ELSE /\ resp' = resp
                /\ pc' = [pc EXCEPT ![p] = "create_user"]
                /\ req' = [req EXCEPT ![p] = user_data]
        /\ UNCHANGED <<users, tasks, nextTaskId, now, nticks, wallet>>

\* POST /register from create_user to the response.
RegisterCreate(p, salt, after) ==
    LET out == register_create(users, req[p], salt)
    IN  /\ resp.op = ""
        /\ pc[p] = "create_user"
        /\ users' = out.users
        /\ resp' = Tag("register", req[p].username, 0, {}, out.resp)
        /\ pc' = [pc EXCEPT ![p] = after]
        /\ req' = [req EXCEPT ![p] =
                     IF after = "idle" THEN NoReq
                     ELSE [req[p] EXCEPT !.status = out.resp.status]]
        /\ UNCHANGED <<tasks, nextTaskId, now, nticks, wallet>>

\* GET /me
GetMe(token) ==
    LET auth == get_current_user(token, users, now)
    IN  /\ resp.op = ""
        /\ resp' = Tag("get_current_user_info", "", 0, {token},
                       IF auth.status # 200 THEN auth_failure(auth)
                       ELSE get_current_user_info(
                                CHOOSE u \in auth.user : TRUE))
        /\ UNCHANGED <<users, tasks, nextTaskId, now, nticks, wallet, pc, req>>

\* GET /task/{id}
GetTask(token, id) ==
    LET auth == get_current_user(token, users, now)
    IN  /\ resp.op = ""
        /\ resp' = Tag("get_task_by_id", "", id, {token},
                       IF auth.status # 200 THEN auth_failure(auth)
                       ELSE get_task_by_id(
                                tasks, CHOOSE u \in auth.user : TRUE, id))
        /\ UNCHANGED <<users, tasks, nextTaskId, now, nticks, wallet, pc, req>>

\* POST /tasks
CreateTask(token, task) ==
    LET auth == get_current_user(token, users, now)
    IN  /\ resp.op = ""
        /\ nextTaskId <= MaxTaskId
        /\ IF auth.status # 200
           THEN /\ resp' = Tag("create_task", "", 0, {token},
                                 auth_failure(auth))
                /\ UNCHANGED <<tasks, nextTaskId>>
           ELSE LET out == create_task(tasks, nextTaskId,
                                       CHOOSE u \in auth.user : TRUE,
                                       task, now)
                IN  /\ resp' = Tag("create_task", "", 0, {token}, out.resp)
                    /\ tasks' = out.tasks
                    /\ nextTaskId' = nextTaskId + 1
        /\ UNCHANGED <<users, now, nticks, wallet, pc, req>>

\* PUT /task/{id}
UpdateTask(token, id, updated_task) ==
    LET auth == get_current_user(token, users, now)
    IN  /\ resp.op = ""
        /\ IF auth.status # 200
           THEN /\ resp' = Tag("update_task", "", id, {token},
                                 auth_failure(auth))
                /\ tasks' = tasks
           ELSE LET out == update_task(tasks, CHOOSE u \in auth.user : TRUE,
                                       id, updated_task)
                IN  /\ resp' = Tag("update_task", "", id, {token}, out.resp)
                    /\ tasks' = out.tasks
        /\ UNCHANGED <<users, nextTaskId, now, nticks, wallet, pc, req>>

\* DELETE /task/{id}
DeleteTask(token, id) ==
    LET auth == get_current_user(token, users, now)
    IN  /\ resp.op = ""
        /\ IF auth.status # 200
           THEN /\ resp' = Tag("delete_task", "", id, {token},
                                 auth_failure(auth))
                /\ tasks' = tasks
           ELSE LET out == delete_task(tasks, CHOOSE u \in auth.user : TRUE,
                                       id)
                IN  /\ resp' = Tag("delete_task", "", id, {token}, out.resp)
                    /\ tasks' = out.tasks
        /\ UNCHANGED <<users, nextTaskId, now, nticks, wallet, pc, req>>

\* GET /users
GetAllUsers(token) ==
    LET auth == get_current_user(token, users, now)
    IN  /\ resp.op = ""
        /\ resp' = Tag("get_all_users", "", 0, {token},
                       IF auth.status # 200 THEN auth_failure(auth)
                       ELSE get_all_users(users,
                                          CHOOSE u \in auth.user : TRUE))
        /\ UNCHANGED <<users, tasks, nextTaskId, now, nticks, wallet, pc, req>>

\* GET /tasks
GetAllTasks(token, q) ==
    LET auth == get_current_user(token, users, now)
    IN  /\ resp.op = ""
        /\ \E r \in IF auth.status # 200 THEN {auth_failure(auth)}
                     ELSE get_all_tasks(tasks,
                                        CHOOSE u \in auth.user : TRUE, q) :
              resp' = Tag("get_all_tasks", "", 0, {token}, r)
        /\ UNCHANGED <<users, tasks, nextTaskId, now, nticks, wallet, pc, req>>

\* GET /my-tasks
GetMyTasks(token, q) ==
    LET auth == get_current_user(token, users, now)
    IN  /\ resp.op = ""
        /\ \E r \in IF auth.status # 200 THEN {auth_failure(auth)}
                     ELSE get_my_tasks(tasks,
                                       CHOOSE u \in auth.user : TRUE, q) :
              resp' = Tag("get_my_tasks", "", 0, {token}, r)
        /\ UNCHANGED <<users, tasks, nextTaskId, now, nticks, wallet, pc, req>>

\* GET /user/{user_id}/tasks
GetUserTasks(token, user_id, q) ==
    LET auth == get_current_user(token, users, now)
    IN  /\ resp.op = ""
        /\ \E r \in IF auth.status # 200 THEN {auth_failure(auth)}
                     ELSE get_user_tasks(tasks, users,
                                         CHOOSE u \in auth.user : TRUE,
                                         user_id, q) :
              resp' = Tag("get_user_tasks", "", user_id, {token}, r)
        /\ UNCHANGED <<users, tasks, nextTaskId, now, nticks, wallet, pc, req>>

\* GET /
Greet ==
    /\ resp.op = ""
    /\ resp' = Tag("greet", "", 0, {}, greet)
    /\ UNCHANGED <<users, tasks, nextTaskId, now, nticks, wallet, pc, req>>

\* The role column of a users row rewritten in the database, by no route
\* of the application.
RoleChanged(username, role) ==
    /\ resp.op = ""
    /\ \E u \in users : u.username = username /\ u.role # role
    /\ users' = {IF u.username = username THEN [u EXCEPT !.role = role]
                 ELSE u : u \in users}
    /\ UNCHANGED <<tasks, nextTaskId, now, nticks, wallet, pc, req, resp>>

-----------------------------------------------------------------------------
(* Specifications *)

\* The whole API.  Task requests name task 2 (demo's) or no task, and the
\* clock moves by a minute less than the token window or by the window.
TickSteps == {59 * MinuteTicks, WindowTicks}
SomeTaskIds == {2, MaxTaskId + 1}
SomeUpdates == [name : {"Review"}, status : {NoneVal}]

Next ==
    \/ Deliver
    \/ \E d \in TickSteps : Tick(d, MaxTicks)
    \/ \E n \in LoginNames, pw \in LoginPasswords, keep \in BOOLEAN :
          Login(n, pw, keep)
    \/ \E p \in {"r1"}, b \in RegBodies : RegisterLookup(p, b, "idle")
    \/ \E p \in {"r1"}, s \in Salts : RegisterCreate(p, s, "idle")
    \/ \E tok \in Presented : GetMe(tok)
    \/ \E tok \in Held, id \in SomeTaskIds : GetTask(tok, id)
    \/ \E tok \in Held, b \in TaskBodies : CreateTask(tok, b)
    \/ \E tok \in Held, id \in SomeTaskIds, b \in SomeUpdates :
          UpdateTask(tok, id, b)
    \/ \E tok \in Held, id \in SomeTaskIds : DeleteTask(tok, id)
    \/ \E tok \in Held : GetAllUsers(tok)

Spec == Init /\ [][Next]_vars

\* Register requests alone, each process sending one and resting at "done"
\* with the status it was answered.
NextRace ==
    \/ Deliver
    \/ \E p \in Procs, b \in RegBodies : RegisterLookup(p, b, "done")
    \/ \E p \in Procs, s \in Salts : RegisterCreate(p, s, "done")
    \/ \E n \in LoginNames, pw \in LoginPasswords : Login(n, pw, TRUE)
    \/ \E tok \in Held, id \in SomeTaskIds : GetTask(tok, id)
    \/ \E tok \in Held, b \in TaskBodies : CreateTask(tok, b)
    \/ \E tok \in Held, id \in SomeTaskIds, b \in SomeUpdates :
          UpdateTask(tok, id, b)
    \/ \E tok \in Held, id \in SomeTaskIds : DeleteTask(tok, id)

SpecRace == Init /\ [][NextRace]_vars

\* The token codec and the session resolver around the expiry instant:
\* logins at instants on and off the whole second, every token a request
\* may carry, and clock steps that land on both sides of the window.
CodecSteps ==
    {1, MinuteTicks - 1, 59 * MinuteTicks, WindowTicks, 61 * MinuteTicks}

NextCodec ==
    \/ Deliver
    \/ \E d \in CodecSteps : Tick(d, MaxCodecTicks)
    \/ \E n \in LoginNames, pw \in LoginPasswords, keep \in BOOLEAN :
          Login(n, pw, keep)
    \/ \E tok \in Presented : GetMe(tok)

SpecCodec == Init /\ [][NextCodec]_vars

\* The task endpoints and the admin gate, for the users init_db made.
\* Reads name any task; writes name demo's Coding, admin's Research, the
\* last task that can be created, or no task.
WriteIds == {2, 3, MaxTaskId, MaxTaskId + 1}

NextTasks ==
    \/ Deliver
    \/ \E n \in {"admin", "demo"}, pw \in {"admin123", "demo123"} :
          Login(n, pw, TRUE)
    \/ \E tok \in Held, id \in TaskIds : GetTask(tok, id)
    \/ \E tok \in Held, b \in TaskBodies : CreateTask(tok, b)
    \/ \E tok \in Held, id \in WriteIds, b \in TaskUpdates :
          UpdateTask(tok, id, b)
    \/ \E tok \in Held, id \in WriteIds : DeleteTask(tok, id)
    \/ \E tok \in Held : GetAllUsers(tok)

SpecTasks == Init /\ [][NextTasks]_vars

\* Every route, with every header a request may carry on the protected
\* ones: none, a token login gave, a forged one, one for a missing subject,
\* and, once the clock has moved by the token window, an expired one.
Bearers == Presented \cup {NoHeader}
GuardNames == {"admin", "demo", "ghost"}
GuardPasswords == {"admin123", "demo123"}
GuardBodies == {b \in RegBodies : b.role = "user"}
GuardQueries == {DefaultQuery, [DefaultQuery EXCEPT !.starts_with = "Zz"]}

NextGuard ==
    \/ Deliver
    \/ Tick(WindowTicks, MaxTicks)
    \/ \E n \in GuardNames, pw \in GuardPasswords : Login(n, pw, TRUE)
    \/ \E p \in {"r1"}, b \in GuardBodies : RegisterLookup(p, b, "idle")
    \/ \E p \in {"r1"} : RegisterCreate(p, "5a5a", "idle")
    \/ Greet
    \/ \E tok \in Bearers : GetMe(tok)
    \/ \E tok \in Bearers, q \in GuardQueries : GetAllTasks(tok, q)
    \/ \E tok \in Bearers, q \in GuardQueries : GetMyTasks(tok, q)
    \/ \E tok \in Bearers, id \in SomeTaskIds : GetTask(tok, id)
    \/ \E tok \in Bearers, b \in TaskBodies : CreateTask(tok, b)
    \/ \E tok \in Bearers, id \in SomeTaskIds, b \in SomeUpdates :
          UpdateTask(tok, id, b)
    \/ \E tok \in Bearers, id \in SomeTaskIds : DeleteTask(tok, id)
    \/ \E tok \in Bearers : GetAllUsers(tok)
    \/ \E tok \in Bearers, id \in PathUserIds, q \in GuardQueries :
          GetUserTasks(tok, id, q)

SpecGuard == Init /\ [][NextGuard]_vars

\* The three listings over the task tables the writes of admin and demo
\* produce: each name filter, on the whole list ascending and on the
\* second row descending.
ListQueries ==
    {q \in Queries : /\ q.status_filter = NoneVal
                     /\ (q.limit = 1) <=> (q.offset = 1)
                     /\ (q.sort_by = "desc") <=> (q.limit = 1)}

NextLists ==
    \/ Deliver
    \/ \E n \in {"admin", "demo"}, pw \in {"admin123", "demo123"} :
          Login(n, pw, TRUE)
    \/ \E tok \in Held, b \in TaskBodies : CreateTask(tok, b)
    \/ \E tok \in Held, id \in WriteIds, b \in TaskUpdates :
          UpdateTask(tok, id, b)
    \/ \E tok \in Held, id \in WriteIds : DeleteTask(tok, id)
    \/ \E tok \in Held, q \in ListQueries : GetAllTasks(tok, q)
    \/ \E tok \in Held, q \in ListQueries : GetMyTasks(tok, q)
    \/ \E tok \in Held, id \in PathUserIds, q \in ListQueries :
          GetUserTasks(tok, id, q)

SpecLists == Init /\ [][NextLists]_vars

\* Tokens outliving a change of the stored role: logins, registrations,
\* the role column rewritten, and requests whose authorization depends on
\* the role, on tasks of demo (2) and of admin (3).
RoleTaskIds == {2, 3}

NextRoles ==
    \/ Deliver
    \/ \E d \in TickSteps : Tick(d, MaxTicks)
    \/ \E n \in LoginNames, pw \in LoginPasswords, keep \in BOOLEAN :
          Login(n, pw, keep)
    \/ \E p \in {"r1"}, b \in RegBodies : RegisterLookup(p, b, "idle")
    \/ \E p \in {"r1"} : RegisterCreate(p, "5a5a", "idle")
    \/ \E n \in LoginNames, r \in Roles : RoleChanged(n, r)
    \/ \E tok \in Held : GetMe(tok)
    \/ \E tok \in Held : GetAllUsers(tok)
    \/ \E tok \in Held, id \in RoleTaskIds : GetTask(tok, id)

SpecRoles == Init /\ [][NextRoles]_vars

\* The password hasher at work: registrations with passwords of which one
\* is a prefix of another and some hold the separator "$", under either
\* salt, and logins trying every password on every user.
HashPasswords == {"secret1", "secret12", "secret1$", "$ecret"}
HashBodies ==
    [username : {"alice"}, password : HashPasswords, role : {"user"},
     status : {0}]

NextHasher ==
    \/ Deliver
    \/ \E p \in {"r1"}, b \in HashBodies : RegisterLookup(p, b, "idle")
    \/ \E p \in {"r1"}, s \in Salts : RegisterCreate(p, s, "idle")
    \/ \E n \in LoginNames, pw \in HashPasswords \cup LoginPasswords :
          Login(n, pw, FALSE)

SpecHasher == Init /\ [][NextHasher]_vars

\* Registration by callers with no token, the role given or left out, and
\* what the registered users can do once logged in.
NextRegister ==
    \/ Deliver
    \/ \E p \in {"r1"}, b \in SentBodies :
          RegisterLookup(p, UserCreate(b), "idle")
    \/ \E p \in {"r1"}, s \in Salts : RegisterCreate(p, s, "idle")
    \/ \E n \in {"admin", "alice", "bob1"}, pw \in {"admin123", "secret1"} :
          Login(n, pw, TRUE)
    \/ \E tok \in Held : GetMe(tok)
    \/ \E tok \in Held : GetAllUsers(tok)
    \/ \E tok \in Held, id \in RoleTaskIds : GetTask(tok, id)

SpecRegister == Init /\ [][NextRegister]_vars

-----------------------------------------------------------------------------
(* Registration: concurrent requests and the uniqueness of usernames *)

\* The usernames the store held before any request.
StartNames == {u.username : u \in InitUsers("5a5a", "c3c3")}

\* C1: when two register requests for one username that was not in the
\* store have both returned, whatever the order of their look-ups and
\* inserts, one was answered 201 and the other 400 (UsernameTaken).
C1_RaceOneWinnerOtherUsernameTaken ==
    \A p \in Procs, q \in Procs :
        (/\ p # q
         /\ pc[p] = "done" /\ pc[q] = "done"
         /\ req[p].username = req[q].username
         /\ req[p].username \notin StartNames)
        => {req[p].status, req[q].status} = {201, 400}

\* C2: no two user rows have the same username.
C2_UsernamesUnique ==
    \A u \in users, v \in users : u.username = v.username => u = v

\* C2's case: two requests raced for one username, both passed the
\* look-up, and the store turned the second insert away.
C2_Witness_DuplicateInsertRefused ==
    /\ \E p \in Procs : pc[p] = "done" /\ req[p].status = 500
    /\ \E u \in users : u.username \notin StartNames

-----------------------------------------------------------------------------
(* Login *)

\* C3: login answers an unknown username and a known username with the
\* wrong password with one and the same response, 401 "Invalid
\* credentials", which carries no token.
C3_LoginFailureUniform ==
    \A n \in LoginNames, pw \in LoginPasswords :
        LET absent == \A u \in users : u.username # n
            wrong == \E u \in users :
                        /\ u.username = n
                        /\ ~ verify_password(pw, u.hashed_password)
        IN  (absent \/ wrong)
            => login(users, n, pw, now)
                 = Response(401, "Invalid credentials", "Bearer", {})

\* C3's case: alice, unknown until she registered, is refused with a wrong
\* password while ghost is still unknown.
C3_Witness_WrongPasswordRefused ==
    /\ resp.op = "login" /\ resp.name = "alice" /\ resp.status = 401
    /\ \E u \in users : u.username = "alice"
    /\ \A u \in users : u.username # "ghost"

\* C4: login returns a token exactly when a stored user has the username
\* and a hash the password verifies against, and the token's claims are
\* that user's username, role and id, in {access_token, token_type: bearer}.
C4_LoginTokenIffCredentialsMatch ==
    \A n \in LoginNames, pw \in LoginPasswords :
        LET r == login(users, n, pw, now)
            match == {u \in users :
                        /\ u.username = n
                        /\ verify_password(pw, u.hashed_password)}
        IN  /\ (r.status = 200) <=> (match # {})
            /\ r.status # 200 => r.body = {}
            /\ r.status = 200 =>
                 \E u \in match, b \in r.body :
                    /\ r.body = {b}
                    /\ DOMAIN b = {"access_token", "token_type"}
                    /\ b.token_type = "bearer"
                    /\ DOMAIN b.access_token.payload
                         = {"sub", "role", "user_id", "exp"}
                    /\ b.access_token.payload.sub = u.username
                    /\ b.access_token.payload.role = u.role
                    /\ b.access_token.payload.user_id = u.id

\* C4's case: a user who registered logs in and is given a token.
C4_Witness_RegisteredUserGetsToken ==
    /\ resp.op = "login" /\ resp.name = "alice" /\ resp.status = 200
    /\ resp.body # {}

-----------------------------------------------------------------------------
(* Token lifetime and validation *)

\* The instant, in ticks, at which a token's exp claim falls.
ExpiryTicks(tok) == tok.payload.exp * TicksPerSec

\* Resolving a held token at the present instant.
Resolved(w) == get_current_user(w.token, users, now)

\* C5 as stated: a token issued at t0 carries expiry t0 + 60 minutes
\* exactly, resolves up to t0 + 59 minutes and fails with "Token has
\* expired" from t0 + 61 minutes on.
C5_ExpiryIsIssuePlusSixtyMinutes ==
    \A w \in wallet :
        /\ ExpiryTicks(w.token) = w.issued_at + WindowTicks
        /\ now <= w.issued_at + 59 * MinuteTicks => Resolved(w).status = 200
        /\ now >= w.issued_at + 61 * MinuteTicks
             => Resolved(w).detail = "Token has expired"

\* C5 amended: a token issued at t0 carries as expiry the whole second that
\* t0 + 60 minutes falls in (at most one second before t0 + 60 minutes);
\* it resolves to the user it names up to t0 + 59 minutes and fails with
\* "Token has expired" from t0 + 61 minutes on.
C5_ExpiryIsWholeSecondOfIssuePlusSixtyMinutes ==
    \A w \in wallet :
        /\ w.token.payload.exp = NumericDate(w.issued_at + WindowTicks)
        /\ ExpiryTicks(w.token) <= w.issued_at + WindowTicks
        /\ ExpiryTicks(w.token) > w.issued_at + WindowTicks - TicksPerSec
        /\ now <= w.issued_at + 59 * MinuteTicks =>
             /\ Resolved(w).status = 200
             /\ \A u \in Resolved(w).user :
                   /\ u.username = w.token.payload.sub
                   /\ u.role = w.token.payload.role
                   /\ u.id = w.token.payload.user_id
        /\ now >= w.issued_at + 61 * MinuteTicks =>
             /\ Resolved(w).status = 401
             /\ Resolved(w).detail = "Token has expired"

\* C5's case: a token issued between two whole seconds is presented 61
\* minutes or more later and is answered "Token has expired".
C5_Witness_OddInstantTokenExpires ==
    /\ resp.op = "get_current_user_info"
    /\ resp.detail = "Token has expired"
    /\ \E w \in wallet :
          /\ resp.token = {w.token}
          /\ w.issued_at % TicksPerSec # 0
          /\ now >= w.issued_at + 61 * MinuteTicks

\* C6: a token that differs from an issued one in a claim, in its header or
\* in its signature, or that is no token at all, is refused with "Could not
\* validate credentials", expired or not; "Token has expired" is answered
\* only to a token of three segments signed HS256 with SECRET_KEY.
C6_SignatureCheckedBeforeExpiry ==
    /\ \A tok \in Forged :
          get_current_user(tok, users, now) = credentials_exception
    /\ \A tok \in Presented :
          get_current_user(tok, users, now).detail = "Token has expired"
          => /\ tok.segments = 3
             /\ tok.header.alg = ALGORITHM
             /\ tok.signature
                  = HmacSha256(SECRET_KEY, tok.header, tok.payload)

\* C6's case: a token both tampered and expired is presented and refused
\* with "Could not validate credentials".
C6_Witness_TamperedExpiredRefusedAsInvalid ==
    /\ resp.op = "get_current_user_info"
    /\ resp.status = 401
    /\ resp.detail = "Could not validate credentials"
    /\ \E w \in wallet :
          /\ resp.token \subseteq Tampered(w.token)
          /\ \A tok \in resp.token : ExpiryTicks(tok) <= now
          /\ Resolved(w).detail = "Token has expired"

\* C7: a validly signed, unexpired token whose subject is not a username in
\* the store is refused with a failure that differs from the one an invalid
\* token gets and from the one an expired token gets.
C7_MissingSubjectFailsDistinctly ==
    \A tok \in Orphans(users, now) :
        tok.payload.sub # NoneVal =>
            LET r == get_current_user(tok, users, now)
            IN  /\ r.status # 200
                /\ r.detail # "Token has expired"
                /\ \A bad \in Forged : r # get_current_user(bad, users, now)


\* C8: in every state a token that login returned and that has not reached
\* its expiry resolves to the user whose id it carries, and no step of the
\* system takes a row out of the users table.
C8_TokenResolvesUntilExpiry ==
    /\ [](\A w \in wallet :
            now < ExpiryTicks(w.token) =>
                /\ Resolved(w).status = 200
                /\ \A u \in Resolved(w).user :
                      /\ u.id = w.token.payload.user_id
                      /\ u.username = w.token.payload.sub)
    /\ [][users \subseteq users']_vars

\* C8's case: 59 minutes after it was issued, with a user registered and the
\* tasks changed in between, the token is presented and resolves.
C8_Witness_ResolvesAfterOtherOperations ==
    /\ resp.op = "get_current_user_info"
    /\ resp.status = 200
    /\ \E w \in wallet :
          /\ resp.token = {w.token}
          /\ now >= w.issued_at + 59 * MinuteTicks
          /\ resp.body = {UserOut(u) : u \in Resolved(w).user}
    /\ \E u \in users : u.username \notin StartNames
    /\ tasks # InitTasks(users)

-----------------------------------------------------------------------------
(* Authorization *)

\* can_access: admin, or the owner of the task.
Permitted(u, t) == u.role = "admin" \/ u.id = t.user_id

\* The users the bearer tokens of the answered request resolve to.
Requesters ==
    UNION {get_current_user(tok, users, now).user : tok \in resp.token}

\* C9: for every stored user and every existing task, get, update and
\* delete by id succeed exactly when the user is admin or owns the task;
\* otherwise the answer is 403 (never 401, which is kept for requests whose
\* token does not resolve) and the tasks table is returned as it was.
C9_TaskAccessIffAdminOrOwner ==
    /\ \A u \in users, t \in tasks :
          LET g == get_task_by_id(tasks, u, t.id)
              d == delete_task(tasks, u, t.id)
          IN  /\ (g.status = 200) <=> Permitted(u, t)
              /\ Permitted(u, t) => g.body = {TaskOut(t)}
              /\ (d.resp.status = 204) <=> Permitted(u, t)
              /\ Permitted(u, t) => d.tasks = tasks \ {t}
              /\ ~ Permitted(u, t) =>
                    /\ g.status = 403 /\ g.body = {}
                    /\ d.resp.status = 403 /\ d.tasks = tasks
              /\ \A b \in TaskUpdates :
                    LET p == update_task(tasks, u, t.id, b)
                    IN  /\ (p.resp.status = 200) <=> Permitted(u, t)
                        /\ ~ Permitted(u, t) =>
                              /\ p.resp.status = 403
                              /\ p.resp.body = {}
                              /\ p.tasks = tasks
    /\ resp.op \in {"get_task_by_id", "update_task", "delete_task"} =>
          /\ resp.status = 401 <=> Requesters = {}
          /\ resp.status = 403 =>
                \E u \in Requesters, t \in tasks :
                    t.id = resp.id /\ ~ Permitted(u, t)

\* C9's case: demo asks to update a task of admin and is answered 403, the
\* task being as init_db made it.
C9_Witness_ForeignUpdateForbidden ==
    /\ resp.op = "update_task"
    /\ resp.status = 403
    /\ \E u \in Requesters, t \in tasks :
          /\ t.id = resp.id
          /\ u.role = "user" /\ u.id # t.user_id
          /\ t \in InitTasks(users)

\* C10: get_all_users succeeds exactly for stored users whose role is
\* admin; a user with role user is answered 403 with no user records.
C10_UserListAdminOnly ==
    /\ \A u \in users :
          LET r == get_all_users(users, u)
          IN  /\ (r.status = 200) <=> (u.role = "admin")
              /\ u.role = "user" => r.status = 403 /\ r.body = {}
              /\ r.status = 200 => r.body = {UserOut(v) : v \in users}
    /\ resp.op = "get_all_users" =>
          /\ resp.status = 200 => \E u \in Requesters : u.role = "admin"
          /\ resp.status # 200 => resp.body = {}

\* C10's case: a logged-in user with role user asks for the user list and
\* is answered 403.
C10_Witness_PlainUserForbidden ==
    /\ resp.op = "get_all_users"
    /\ resp.status = 403
    /\ resp.body = {}
    /\ \E u \in Requesters : u.role = "user"

-----------------------------------------------------------------------------
(* Authentication before every protected operation *)

\* The operations declared with Depends(get_current_user).
ProtectedOps ==
    {"get_current_user_info", "get_all_tasks", "get_my_tasks",
     "get_task_by_id", "create_task", "update_task", "delete_task",
     "get_all_users", "get_user_tasks"}

\* A bearer token that names a principal now: three segments signed HS256
\* with SECRET_KEY, not expired, its subject a username in the store.
TokenResolves(tok) ==
    /\ tok.segments = 3
    /\ tok.header.alg = ALGORITHM
    /\ tok.signature = HmacSha256(SECRET_KEY, tok.header, tok.payload)
    /\ now < ExpiryTicks(tok)
    /\ \E u \in users : u.username = tok.payload.sub

\* C11: a request for a task or user-management operation that carries no
\* token, or a token that does not resolve, is answered 401 with no body
\* and leaves users and tasks as they were; an answer other than 401 from
\* such an operation went to a token that resolves; the operations answered
\* without any token are the welcome, login and register.
C11_ProtectedOperationsRequireToken ==
    /\ [][(/\ resp.op = ""
           /\ resp'.op \in ProtectedOps
           /\ \A tok \in resp'.token : ~ TokenResolves(tok))
          => /\ resp'.status = 401
             /\ resp'.body = {}
             /\ users' = users
             /\ tasks' = tasks
             /\ nextTaskId' = nextTaskId]_vars
    /\ [](resp.op \in ProtectedOps =>
            /\ resp.token # {}
            /\ resp.status # 401 => \E tok \in resp.token : TokenResolves(tok))
    /\ [](resp.op \notin ProtectedOps \cup {""} =>
            /\ resp.op \in {"greet", "login", "register"}
            /\ resp.token = {})

\* C11's case: a task is posted with no Authorization header and the
\* request is answered 401.
C11_Witness_CreateWithoutTokenRefused ==
    /\ resp.op = "create_task"
    /\ resp.token = {NoHeader}
    /\ resp.status = 401
    /\ resp.detail = "Not authenticated"
    /\ nextTaskId = 5

-----------------------------------------------------------------------------
(* Listings *)

\* The rows of a returned list, and the stored tasks as responses show them.
Rows(list) == {list[i] : i \in DOMAIN list}
TaskOuts(db_tasks) == {TaskOut(t) : t \in db_tasks}

\* C12: for every stored user and every query, each row /tasks returns is a
\* stored task, the user's own unless the user is admin; each row /my-tasks
\* returns is a stored task of the user, admin or not; with the default
\* query /tasks returns all tasks to an admin and exactly the own tasks to
\* a user, and /my-tasks exactly the own tasks to both, each once.  The
\* same of the lists requests were answered with.  (The tables do not
\* change while a response waits to be read: the queries are tried on the
\* states between requests.)
C12_ListingsScopedToPrincipal ==
    /\ resp.op = "" =>
          \A u \in users :
            LET own == {t \in tasks : t.user_id = u.id}
            IN  /\ \A q \in Queries :
                      /\ \A r \in get_all_tasks(tasks, u, q) :
                            \A l \in r.body :
                               /\ Rows(l) \subseteq TaskOuts(tasks)
                               /\ u.role # "admin"
                                    => Rows(l) \subseteq TaskOuts(own)
                      /\ \A r \in get_my_tasks(tasks, u, q) :
                            /\ r.status = 200
                            /\ \A l \in r.body :
                                  Rows(l) \subseteq TaskOuts(own)
                /\ \A r \in get_all_tasks(tasks, u, DefaultQuery) :
                      /\ r.status = 200
                      /\ \A l \in r.body :
                            /\ Rows(l) = TaskOuts(IF u.role = "admin"
                                                  THEN tasks ELSE own)
                            /\ Len(l) = Cardinality(Rows(l))
                /\ \A r \in get_my_tasks(tasks, u, DefaultQuery) :
                      \A l \in r.body :
                         /\ Rows(l) = TaskOuts(own)
                         /\ Len(l) = Cardinality(own)
    /\ resp.op \in {"get_all_tasks", "get_my_tasks"} =>
          \A u \in Requesters, l \in resp.body :
             /\ Rows(l) \subseteq TaskOuts(tasks)
             /\ (resp.op = "get_my_tasks" \/ u.role # "admin")
                  => \A row \in Rows(l) : row.user_id = u.id

\* C12's case: an admin asks for /my-tasks while other users have tasks and
\* is given tasks, all of them the admin's own.
C12_Witness_AdminMyTasksOwnOnly ==
    /\ resp.op = "get_my_tasks"
    /\ resp.status = 200
    /\ \E u \in Requesters :
          /\ u.role = "admin"
          /\ \E t \in tasks : t.user_id # u.id
          /\ \E l \in resp.body :
                /\ l # <<>>
                /\ \A i \in DOMAIN l : l[i].user_id = u.id

-----------------------------------------------------------------------------
(* The principal is the stored user *)

\* The stored user a token names.
Subject(tok) == {u \in users : u.username = tok.payload.sub}

\* C13: a token that resolves gives exactly the users row stored under its
\* subject, whatever role and user_id the token claims; /me shows that
\* row's id, username and role, and /users is open exactly when that row's
\* role is admin.
C13_PrincipalIsStoredUser ==
    /\ \A u \in users, r \in Roles, d \in {0, 1} :
          get_current_user(
              create_access_token(
                  [sub |-> u.username, role |-> r, user_id |-> u.id + d],
                  now),
              users, now)
            = [status |-> 200, detail |-> "", user |-> {u}]
    /\ \A w \in wallet :
          Resolved(w).status = 200 => Resolved(w).user = Subject(w.token)
    /\ \A tok \in resp.token :
          /\ resp.op = "get_current_user_info" /\ resp.status = 200
               => resp.body = {UserOut(u) : u \in Subject(tok)}
          /\ resp.op = "get_all_users" /\ resp.status # 401
               => (resp.status = 200
                     <=> \E u \in Subject(tok) : u.role = "admin")

\* C13's case: /me is asked with a token whose role claim is not the stored
\* role any more, and answers with the stored role.
C13_Witness_MeShowsStoredRole ==
    /\ resp.op = "get_current_user_info"
    /\ resp.status = 200
    /\ \E tok \in resp.token, b \in resp.body :
          /\ b.role # tok.payload.role
          /\ b.id = tok.payload.user_id

\* A held token that claims admin, has not expired, and whose user is
\* stored with role user now.
Downgraded(w) ==
    /\ w.token.payload.role = "admin"
    /\ now < ExpiryTicks(w.token)
    /\ \E u \in Subject(w.token) : u.role = "user"

\* C14 as stated: while a token issued to an admin is unexpired, a request
\* bearing it is authorized as admin although the stored role has become
\* user: it may list users and read other users' tasks.
C14_DowngradeWaitsForExpiry ==
    \A w \in wallet :
        Downgraded(w) =>
            \A u \in Resolved(w).user :
                /\ get_all_users(users, u).status = 200
                /\ \A t \in tasks : get_task_by_id(tasks, u, t.id).status = 200

\* C14 amended: the downgrade takes effect at the next request.  A request
\* bearing the unexpired token of a user whose stored role has become user
\* is authorized as that user: /users answers 403 and another user's task
\* answers 403, the own tasks 200.
C14_DowngradeImmediate ==
    /\ \A w \in wallet :
          Downgraded(w) =>
              /\ Resolved(w).status = 200
              /\ \A u \in Resolved(w).user :
                    /\ u.role = "user"
                    /\ get_all_users(users, u).status = 403
                    /\ \A t \in tasks :
                          get_task_by_id(tasks, u, t.id).status
                            = IF t.user_id = u.id THEN 200 ELSE 403
    /\ \A w \in wallet :
          (resp.token = {w.token} /\ Downgraded(w)) =>
              /\ resp.op = "get_all_users" => resp.status = 403
              /\ resp.op = "get_task_by_id" =>
                    \A t \in tasks :
                       (t.id = resp.id /\ t.user_id # w.token.payload.user_id)
                       => resp.status = 403

\* C14's case: the admin's role has been set to user; the token the admin
\* was given before is presented to /users within its lifetime and is
\* answered 403.
C14_Witness_DowngradedAdminForbidden ==
    /\ resp.op = "get_all_users"
    /\ resp.status = 403
    /\ \E w \in wallet :
          /\ resp.token = {w.token}
          /\ Downgraded(w)
          /\ w.token.payload.sub = "admin"

-----------------------------------------------------------------------------
(* Registration: one request at a time *)

\* The 400 of register_user.
UsernameTaken == Response(400, "Username already registered", "", {})

\* C15: register_user refuses every body whose username is in the store
\* with 400 "Username already registered"; a register request for a stored
\* username, no other register request being in flight, is answered 400 and
\* leaves the users table as it was.
C15_DuplicateRegisterRefused ==
    /\ [](\A b \in [username : LoginNames, password : LoginPasswords,
                    role : Roles, status : {0}] :
            (\E u \in users : u.username = b.username)
            => register_lookup(users, b) = {UsernameTaken})
    /\ [][(/\ resp.op = ""
           /\ resp'.op = "register"
           /\ \E u \in users : u.username = resp'.name)
          => /\ resp'.status = 400
             /\ resp'.detail = "Username already registered"
             /\ users' = users]_vars

\* C15's case: alice registered, registers again and is answered 400; the
\* store holds her once.
C15_Witness_SecondRegisterRefused ==
    /\ resp.op = "register"
    /\ resp.name = "alice"
    /\ resp.status = 400
    /\ Cardinality({u \in users : u.username = "alice"}) = 1
    /\ Cardinality(users) = 3

-----------------------------------------------------------------------------
(* Password hashing *)

\* The passwords tried.
Passwords == HashPasswords \cup LoginPasswords

\* C16: under every salt, a password verifies against its own hash and no
\* other password does; a stored hash verifies exactly the password it was
\* made from.
C16_VerifyAcceptsExactlyTheHashedPassword ==
    /\ \A s \in Salts, p \in Passwords :
          verify_password(p, hash_password(p, s))
    /\ \A s \in Salts, p1 \in Passwords, p2 \in Passwords :
          p1 # p2 => ~ verify_password(p1, hash_password(p2, s))
    /\ \A u \in users, p \in Passwords :
          verify_password(p, u.hashed_password)
            <=> \E s \in Salts : u.hashed_password = hash_password(p, s)

\* C16's case: alice registered with "secret1$", hashed under the salt
\* c3c3, and a login as alice was verified against that hash and accepted.
C16_Witness_LoginVerifiedAgainstStoredHash ==
    /\ resp.op = "login"
    /\ resp.name = "alice"
    /\ resp.status = 200
    /\ \E u \in users :
          /\ u.username = "alice"
          /\ u.hashed_password = hash_password("secret1$", "c3c3")

-----------------------------------------------------------------------------
(* Task writes: what they change *)

\* The value a field has after an update that supplies `given` for it.
Updated(previous, given) == IF given = NoneVal THEN previous ELSE given

\* C17: a permitted update answers 200 with the task whose name and status
\* are the supplied ones, or the previous ones where none is supplied, and
\* whose id, user_id and created_at are as before; every other task stays
\* as it was, also when the updater is an admin and not the owner.
C17_UpdateChangesOnlySuppliedFields ==
    /\ [](\A u \in users, t \in tasks, b \in TaskUpdates :
            Permitted(u, t) =>
                LET p == update_task(tasks, u, t.id, b)
                    new == [t EXCEPT !.name = Updated(t.name, b.name),
                                     !.status = Updated(t.status, b.status)]
                IN  /\ p.tasks = (tasks \ {t}) \cup {new}
                    /\ p.resp = Response(200, "", "", {TaskOut(new)}))
    /\ [][(/\ resp.op = ""
           /\ resp'.op = "update_task"
           /\ resp'.status = 200)
          => /\ \E t \in tasks, new \in tasks' :
                   /\ t.id = resp'.id
                   /\ new.id = t.id
                   /\ new.user_id = t.user_id
                   /\ new.created_at = t.created_at
                   /\ \E b \in TaskUpdates :
                         /\ new.name = Updated(t.name, b.name)
                         /\ new.status = Updated(t.status, b.status)
                   /\ tasks' \ {new} = tasks \ {t}
                   /\ resp'.body = {TaskOut(new)}
             /\ nextTaskId' = nextTaskId
             /\ users' = users]_vars

\* C17's case: the admin renames demo's task 2 without supplying a status;
\* the task is still demo's and still pending.
C17_Witness_AdminRenamesForeignTask ==
    /\ resp.op = "update_task"
    /\ resp.id = 2
    /\ resp.status = 200
    /\ \E u \in Requesters : u.role = "admin" /\ u.id # 2
    /\ \E t \in tasks :
          /\ t.id = 2 /\ t.user_id = 2
          /\ t.name = "Review" /\ t.status = "pending"
          /\ resp.body = {TaskOut(t)}


\* The 404 of the task routes, and the ids of the stored tasks.
NotFound == Response(404, "Task not found", "", {})
TaskIdsOf(db_tasks) == {t.id : t \in db_tasks}

\* C18: a permitted delete answers 204 and removes that task and no other,
\* after which a get of the id answers 404 to every user, until a create;
\* get, update and delete of an id that names no task answer 404 and leave
\* the tasks as they were.
C18_DeleteRemovesAndMissingIdIsNotFound ==
    /\ [](\A u \in users :
            /\ \A t \in tasks :
                  Permitted(u, t) =>
                      LET d == delete_task(tasks, u, t.id)
                      IN  /\ d.resp = Response(204, "", "", {})
                          /\ d.tasks = tasks \ {t}
                          /\ \A v \in users :
                                get_task_by_id(d.tasks, v, t.id) = NotFound
            /\ \A id \in TaskIds \ TaskIdsOf(tasks) :
                  /\ get_task_by_id(tasks, u, id) = NotFound
                  /\ delete_task(tasks, u, id)
                       = [tasks |-> tasks, resp |-> NotFound]
                  /\ \A b \in TaskUpdates :
                        update_task(tasks, u, id, b)
                          = [tasks |-> tasks, resp |-> NotFound])
    /\ [][/\ (resp.op = "" /\ resp'.op = "delete_task" /\ resp'.status = 204)
             => /\ \E t \in tasks : t.id = resp'.id /\ tasks' = tasks \ {t}
                /\ \A v \in users :
                      get_task_by_id(tasks', v, resp'.id) = NotFound
          /\ (resp.op = "" /\ resp'.status = 404) => tasks' = tasks
          /\ TaskIdsOf(tasks') \subseteq TaskIdsOf(tasks)
             \/ (resp'.op = "create_task" /\ resp'.status = 201)]_vars

\* C18's case: a task id that had been handed out is asked for and answers
\* 404, the task having been deleted; the other three first tasks are as
\* init_db made them.
C18_Witness_DeletedTaskNotFound ==
    /\ resp.op = "get_task_by_id"
    /\ resp.id = 2
    /\ resp.status = 404
    /\ Requesters # {}
    /\ {t \in InitTasks(users) : t.id # 2} \subseteq tasks


\* C19: every task's user_id is the id of a stored user; a created task
\* has the id of the user the request's token resolved to; no step changes
\* the user_id of a task or removes a user.
C19_TaskOwnerExistsAndIsCreator ==
    /\ [](\A t \in tasks : \E u \in users : u.id = t.user_id)
    /\ [](\A u \in users, b \in TaskBodies :
            \A t \in create_task(tasks, nextTaskId, u, b, now).tasks \ tasks :
               t.user_id = u.id)
    /\ [][/\ \A t \in tasks, new \in tasks' :
                new.id = t.id => new.user_id = t.user_id
          /\ \A new \in tasks' \ tasks :
                (\A t \in tasks : t.id # new.id) =>
                    /\ resp'.op = "create_task"
                    /\ resp'.status = 201
                    /\ \E tok \in resp'.token :
                          \E u \in Subject(tok) : new.user_id = u.id
          /\ {u.id : u \in users} \subseteq {u.id : u \in users'}]_vars

\* C19's case: a user who registered after init_db creates a task; the
\* task carries that user's id.
C19_Witness_NewUserOwnsCreatedTask ==
    /\ resp.op = "create_task"
    /\ resp.status = 201
    /\ \E b \in resp.body, u \in Requesters, t \in tasks :
          /\ u.username \notin StartNames
          /\ b = TaskOut(t)
          /\ t.user_id = u.id

-----------------------------------------------------------------------------
(* Registration: the role asked for *)

\* C20: register, which takes no token, answers a body whose username is
\* not stored with 201 and adds one user with that username, the role the
\* body asks for ("user" when it names none) and an id no stored user has;
\* a user so registered as admin, once logged in, is answered as admin.
C20_RegisterStoresRequestedRole ==
    /\ [](\A b \in SentBodies, s \in Salts :
            (\A u \in users : u.username # b.username) =>
                LET out == register_create(users, UserCreate(b), s)
                IN  /\ out.resp.status = 201
                    /\ \E new \in out.users \ users :
                          /\ out.users = users \cup {new}
                          /\ new.username = b.username
                          /\ new.role = IF b.role = NoneVal THEN "user"
                                        ELSE b.role
                          /\ new.hashed_password
                               = hash_password(b.password, s)
                          /\ \A u \in users : u.id # new.id
                          /\ out.resp.body = {UserOut(new)})
    /\ [][(resp.op = "" /\ resp'.op = "register" /\ resp'.status = 201)
          => /\ resp'.token = {}
             /\ \E new \in users' \ users, p \in Procs :
                   /\ users' = users \cup {new}
                   /\ pc[p] = "create_user"
                   /\ new.username = req[p].username
                   /\ new.role = req[p].role
                   /\ \A u \in users : u.id # new.id]_vars
    /\ [](resp.op = "get_all_users" =>
            \A tok \in resp.token, u \in users :
               (u.username = tok.payload.sub /\ u.role = "admin"
                /\ TokenResolves(tok))
               => /\ resp.status = 200
                  /\ resp.body = {UserOut(v) : v \in users})

\* C20's case: a user who registered as admin, with no token, has logged in
\* and is given the list of all users.
C20_Witness_SelfRegisteredAdminListsUsers ==
    /\ resp.op = "get_all_users"
    /\ resp.status = 200
    /\ \E u \in Requesters :
          /\ u.username \notin StartNames
          /\ u.role = "admin"
          /\ u.id = 3

-----------------------------------------------------------------------------
(* Order of the existence and authorization checks *)

\* C21: get, update and delete of a task id answer 404 to every user when
\* the id names no task, and 403 only for an existing task of another user;
\* the per-user listing answers 403 to a non-admin asking for another user
\* id whether or not that user exists, and 404 only to an admin, for a user
\* id that is not stored.
C21_CheckOrderPerOperation ==
    /\ \A u \in users, id \in TaskIds :
          LET g == get_task_by_id(tasks, u, id)
              d == delete_task(tasks, u, id).resp
              exists == id \in TaskIdsOf(tasks)
              foreign == \E t \in tasks : t.id = id /\ ~ Permitted(u, t)
          IN  /\ (g.status = 404) <=> ~ exists
              /\ (d.status = 404) <=> ~ exists
              /\ (g.status = 403) <=> foreign
              /\ (d.status = 403) <=> foreign
              /\ \A b \in TaskUpdates :
                    LET p == update_task(tasks, u, id, b).resp
                    IN  /\ (p.status = 404) <=> ~ exists
                        /\ (p.status = 403) <=> foreign
    /\ \A u \in users, user_id \in PathUserIds, q \in GuardQueries :
          \A r \in get_user_tasks(tasks, users, u, user_id, q) :
             LET stored == \E v \in users : v.id = user_id
                 allowed == u.role = "admin" \/ u.id = user_id
             IN  /\ (r.status = 403) <=> ~ allowed
                 /\ (r.status = 404) <=> (allowed /\ ~ stored)
                 /\ r.status = 404 => u.role = "admin"
                 /\ (r.status = 200) <=> (allowed /\ stored)
    /\ resp.op \in {"get_task_by_id", "update_task", "delete_task"} =>
          /\ resp.status = 403 => resp.id \in TaskIdsOf(tasks)
          /\ (Requesters # {} /\ resp.id \notin TaskIdsOf(tasks)
              /\ resp.status # 204) => resp.status = 404
    /\ resp.op = "get_user_tasks" =>
          /\ resp.status = 404 => \E u \in Requesters : u.role = "admin"
          /\ \A u \in Requesters :
                (u.role # "admin" /\ u.id # resp.id) => resp.status = 403

\* C21's case: a user who is no admin asks for the tasks of user 9, who
\* does not exist, and is answered 403, not 404.
C21_Witness_NonAdminForbiddenForMissingUser ==
    /\ resp.op = "get_user_tasks"
    /\ resp.id = 9
    /\ resp.status = 403
    /\ \A v \in users : v.id # 9
    /\ \E u \in Requesters : u.role = "user"

=============================================================================
